---- MODULE Spec2Model ----
(***************************************************************************)
(* A model of pyxdsm/XDSM.py: the XDSM diagram object (its registration    *)
(* methods add_system, add_input, add_output, connect, add_process) and    *)
(* write, which compiles the object into the node grid, the edges and the  *)
(* process chains and then writes the files.                               *)
(*                                                                         *)
(* Strings that the code builds by concatenation or format() are modelled  *)
(* as tuples of their pieces: 'output_' + name is <<"output_", name>>,     *)
(* '{}-{}'.format(src, target) is <<src, "-", target>>, and a style such   *)
(* as 'DataIO' + ',stack' is the tuple of its comma-separated tokens       *)
(* <<"DataIO", "stack">>.  A Python dict is an insertion-ordered sequence  *)
(* of key/value items.                                                     *)
(***************************************************************************)
EXTENDS Integers, Sequences, FiniteSets, TLC

\* ------------------------------------------------------------- bounds

\* The model registers at most MaxComps components, MaxConns connections and
\* MaxProcs processes of at most MaxProcLen systems each.
MaxComps == 2

MaxConns == 2

MaxProcs == 2

MaxProcLen == 2

\* from_openmdao_group groups at most MaxLabels labels, at most vars_per_line
\* MaxPerLine to a line, and the model follows its loop for MaxLines lines.
MaxLabels == 3

MaxPerLine == 3

MaxLines == 4

\* vars_per_line=4
DefaultVarsPerLine == 4

\* ------------------------------------------------------------- values

\* the node names the calls are made with
Ids == {"A", "B"}

None == <<>>

Some(s) == <<s>>

\* A label is a str or a list of str.
StrLabel(s) == [list |-> FALSE, lines |-> <<s>>]

ListLabel(ls) == [list |-> TRUE, lines |-> ls]

\* A style string, as the tuple of its comma-separated tokens.
Style(s) == <<s>>

DataIO == Style("DataIO")

DataInter == Style("DataInter")

Analysis == Style("Analysis")

\* ------------------------------------------------------------- state

\* comps .. process_arrows are the fields of the XDSM object; call is the
\* last call made on it, with its arguments and what it raised; files are the
\* files on disk and shell the commands handed to os.system.
VARIABLES comps, connections, left_outs, right_outs, ins, processes,
          process_arrows, call, files, shell

\* from_openmdao_group at one of its three grouping loops: pc is its place
\* ("idle" when it is not running), site the loop it runs, given the list of
\* labels the loop started with, var_list what is left of it (vars, outputs
\* or inputs), lines the lines made so far.
VARIABLES pc, site, given, var_list, lines, vars_per_line

grouping == <<pc, site, given, var_list, lines, vars_per_line>>

model == <<comps, connections, left_outs, right_outs, ins, processes,
           process_arrows>>

io == <<files, shell>>

vars == <<comps, connections, left_outs, right_outs, ins, processes,
          process_arrows, call, files, shell, pc, site, given, var_list, lines,
          vars_per_line>>

\* ------------------------------------------------------------- dict

DictHas(d, k) == \E i \in 1..Len(d) : d[i].key = k

DictIndex(d, k) == CHOOSE i \in 1..Len(d) : d[i].key = k

DictGet(d, k) == d[DictIndex(d, k)].val

DictKeys(d) == {d[i].key : i \in 1..Len(d)}

\* d[k] = v
DictSet(d, k, v) ==
    IF DictHas(d, k)
    THEN [d EXCEPT ![DictIndex(d, k)] = [key |-> k, val |-> v]]
    ELSE Append(d, [key |-> k, val |-> v])

\* ------------------------------------------------------------- __init__

Called(op, args, raised) == [op |-> op, args |-> args, raised |-> raised]

Init ==
    /\ comps = <<>>
    /\ connections = <<>>
    /\ left_outs = <<>>
    /\ right_outs = <<>>
    /\ ins = <<>>
    /\ processes = <<>>
    /\ process_arrows = <<>>
    /\ call = Called("__init__", <<>>, "none")
    /\ files = {}
    /\ shell = {}
    /\ pc = "idle"
    /\ site = "none"
    /\ given = <<>>
    /\ var_list = <<>>
    /\ lines = <<>>
    /\ vars_per_line = DefaultVarsPerLine

\* ------------------------------------------------------------- registration

add_system(node_name, style, label, stack, faded) ==
    /\ Len(comps) < MaxComps
    /\ comps' = Append(comps, [node_name |-> node_name, style |-> style,
                               label |-> label, stack |-> stack,
                               faded |-> faded])
    /\ call' = Called("add_system",
                      [node_name |-> node_name, style |-> style,
                       label |-> label, stack |-> stack, faded |-> faded],
                      "none")
    /\ UNCHANGED <<connections, left_outs, right_outs, ins, processes,
                   process_arrows, io, grouping>>

InputEntry(name, label, style, stack) ==
    [node_name |-> <<"output_", name>>, style |-> style, label |-> label,
     stack |-> stack]

\* an add_input that extends the label of an entry it finds
InsAfterAppend(name, label, style, stack) ==
    IF DictHas(ins, name)
    THEN DictSet(ins, name,
                 InputEntry(name,
                            ListLabel(DictGet(ins, name).label.lines
                                          \o label.lines),
                            style, stack))
    ELSE DictSet(ins, name, InputEntry(name, label, style, stack))

\* self.ins[name] = (...)
InsAfter(name, label, style, stack) ==
    DictSet(ins, name, InputEntry(name, label, style, stack))

add_input(name, label, style, stack) ==
    /\ ins' = InsAfter(name, label, style, stack)
    /\ call' = Called("add_input",
                      [name |-> name, label |-> label, style |-> style,
                       stack |-> stack],
                      "none")
    /\ UNCHANGED <<comps, connections, left_outs, right_outs, processes,
                   process_arrows, io, grouping>>

OutputEntry(prefix, name, label, style, stack) ==
    [node_name |-> <<prefix, name>>, style |-> style, label |-> label,
     stack |-> stack]

LeftOutsAfter(name, label, style, stack, side) ==
    IF side = "left"
    THEN DictSet(left_outs, name,
                 OutputEntry("left_output_", name, label, style, stack))
    ELSE left_outs

\* an add_output that files every output that is not a left one as a right one
RightOutsAfterElse(name, label, style, stack, side) ==
    IF side = "left"
    THEN DictSet(right_outs, name,
                 OutputEntry("right_output_", name, label, style, stack))
    ELSE IF side = "right"
    THEN DictSet(right_outs, name,
                 OutputEntry("right_output_", name, label, style, stack))
    ELSE right_outs

RightOutsAfter(name, label, style, stack, side) ==
    IF side = "left"
    THEN right_outs
    ELSE IF side = "right"
    THEN DictSet(right_outs, name,
                 OutputEntry("right_output_", name, label, style, stack))
    ELSE right_outs

add_output(name, label, style, stack, side) ==
    /\ left_outs' = LeftOutsAfter(name, label, style, stack, side)
    /\ right_outs' = RightOutsAfter(name, label, style, stack, side)
    /\ call' = Called("add_output",
                      [name |-> name, label |-> label, style |-> style,
                       stack |-> stack, side |-> side],
                      "none")
    /\ UNCHANGED <<comps, connections, ins, processes, process_arrows, io, grouping>>

ConnectNeverRaises(src, target) == FALSE

\* if src == target: raise ValueError
ConnectRaises(src, target) == src = target

connect(src, target, label, style, stack, faded) ==
    /\ Len(connections) < MaxConns
    /\ IF ConnectRaises(src, target)
       THEN /\ call' = Called("connect",
                              [src |-> src, target |-> target, label |-> label,
                               style |-> style, stack |-> stack,
                               faded |-> faded],
                              "ValueError")
            /\ UNCHANGED connections
       ELSE /\ connections' = Append(connections,
                                     [src |-> src, target |-> target,
                                      style |-> style, label |-> label,
                                      stack |-> stack, faded |-> faded])
            /\ call' = Called("connect",
                              [src |-> src, target |-> target, label |-> label,
                               style |-> style, stack |-> stack,
                               faded |-> faded],
                              "none")
    /\ UNCHANGED <<comps, left_outs, right_outs, ins, processes,
                   process_arrows, io, grouping>>

add_process(systems, arrow) ==
    /\ Len(processes) < MaxProcs
    /\ processes' = Append(processes, systems)
    /\ process_arrows' = Append(process_arrows, arrow)
    /\ call' = Called("add_process", [systems |-> systems, arrow |-> arrow],
                      "none")
    /\ UNCHANGED <<comps, connections, left_outs, right_outs, ins, io, grouping>>

\* ------------------------------------------------------------- _parse_label

RECURSIVE Join(_, _)
\* sep.join(ls), as the tuple of its pieces
Join(sep, ls) ==
    IF Len(ls) = 0 THEN <<>>
    ELSE IF Len(ls) = 1 THEN <<ls[1]>>
    ELSE <<ls[1], sep>> \o Join(sep, Tail(ls))

parse_label(label) ==
    IF label.list
    THEN <<"$\\begin{array}{c}">> \o Join(" \\\\ ", label.lines)
         \o <<"\\end{array}$">>
    ELSE <<"$">> \o label.lines \o <<"$">>

\* ------------------------------------------------------------- _build_node_grid

CompNames == {comps[i].node_name : i \in 1..Len(comps)}

RowShift == IF ins # <<>> THEN 1 ELSE 0

ColShift == IF left_outs # <<>> THEN 1 ELSE 0

GridSize ==
    Len(comps) + RowShift + ColShift + (IF right_outs # <<>> THEN 1 ELSE 0)

comps_rows_unshifted(i) == i - 1

\* comps_rows and comps_cols, for the i-th component (i from 1)
comps_rows(i) == (i - 1) + RowShift

comps_cols(i) == (i - 1) + ColShift

\* The index a name is mapped to once the loop over comps is over: the last
\* component of that name overwrites the earlier ones.
LastComp(n) ==
    CHOOSE i \in 1..Len(comps) :
        /\ comps[i].node_name = n
        /\ \A j \in (i + 1)..Len(comps) : comps[j].node_name # n

row_idx_map == [n \in CompNames |-> comps_rows(LastComp(n))]

col_idx_map == [n \in CompNames |-> comps_cols(LastComp(n))]

EmptyCell == [style |-> <<>>, node_name |-> <<>>, node_label |-> <<>>]

Node(style, node_name, node_label) ==
    [style |-> style, node_name |-> node_name, node_label |-> node_label]

EmptyGrid == [loc \in (0..(GridSize - 1)) \X (0..(GridSize - 1)) |-> EmptyCell]

\* style, with ',stack' and ',faded' added (components and connections)
FlagStyle(style, stack, faded) ==
    (style \o (IF stack THEN <<"stack">> ELSE <<>>))
        \o (IF faded THEN <<"faded">> ELSE <<>>)

OutputStyle(style, stack) == IF stack THEN style \o <<"stack">> ELSE style

\* style = ',stack'
InputStyle(style, stack) == IF stack THEN <<"", "stack">> ELSE style

CompNode(comp) ==
    Node(FlagStyle(comp.style, comp.stack, comp.faded), <<comp.node_name>>,
         parse_label(comp.label))

RECURSIVE PlaceComps(_, _)
PlaceComps(grid, i) ==
    IF i > Len(comps) THEN grid
    ELSE PlaceComps([grid EXCEPT ![<<comps_rows(i), comps_cols(i)>>] =
                         CompNode(comps[i])], i + 1)

ConnName(src, target) == <<src, "-", target>>

ConnLocSwapped(conn) == <<row_idx_map[conn.target], col_idx_map[conn.src]>>

ConnLoc(conn) == <<row_idx_map[conn.src], col_idx_map[conn.target]>>

ConnNode(conn) ==
    Node(FlagStyle(conn.style, conn.stack, conn.faded),
         ConnName(conn.src, conn.target), parse_label(conn.label))

RECURSIVE PlaceConns(_, _)
PlaceConns(grid, i) ==
    IF i > Len(connections) THEN grid
    ELSE PlaceConns([grid EXCEPT ![ConnLoc(connections[i])] =
                         ConnNode(connections[i])], i + 1)

OutNode(out_data) ==
    Node(OutputStyle(out_data.style, out_data.stack), out_data.node_name,
         parse_label(out_data.label))

LeftLoc(comp_name) == <<row_idx_map[comp_name], 0>>

RECURSIVE PlaceLeft(_, _)
PlaceLeft(grid, i) ==
    IF i > Len(left_outs) THEN grid
    ELSE PlaceLeft([grid EXCEPT ![LeftLoc(left_outs[i].key)] =
                        OutNode(left_outs[i].val)], i + 1)

RightLocFirstColumn(comp_name) == <<row_idx_map[comp_name], 0>>

\* (i_row, -1): the last column
RightLoc(comp_name) == <<row_idx_map[comp_name], GridSize - 1>>

RECURSIVE PlaceRight(_, _)
PlaceRight(grid, i) ==
    IF i > Len(right_outs) THEN grid
    ELSE PlaceRight([grid EXCEPT ![RightLoc(right_outs[i].key)] =
                         OutNode(right_outs[i].val)], i + 1)

InNode(in_data) ==
    Node(InputStyle(in_data.style, in_data.stack), in_data.node_name,
         parse_label(in_data.label))

InLoc(comp_name) == <<0, col_idx_map[comp_name]>>

RECURSIVE PlaceIns(_, _)
PlaceIns(grid, i) ==
    IF i > Len(ins) THEN grid
    ELSE PlaceIns([grid EXCEPT ![InLoc(ins[i].key)] = InNode(ins[i].val)],
                  i + 1)

\* a grid builder that looks up the source of a connection only
NodeGridRaisesOnSource ==
    \/ \E i \in 1..Len(connections) : connections[i].src \notin CompNames
    \/ \E i \in 1..Len(left_outs) : left_outs[i].key \notin CompNames
    \/ \E i \in 1..Len(right_outs) : right_outs[i].key \notin CompNames
    \/ \E i \in 1..Len(ins) : ins[i].key \notin CompNames

\* row_idx_map[src], col_idx_map[target], row_idx_map[comp_name] or
\* col_idx_map[comp_name] raises KeyError
NodeGridRaises ==
    \/ \E i \in 1..Len(connections) :
           connections[i].src \notin CompNames
           \/ connections[i].target \notin CompNames
    \/ \E i \in 1..Len(left_outs) : left_outs[i].key \notin CompNames
    \/ \E i \in 1..Len(right_outs) : right_outs[i].key \notin CompNames
    \/ \E i \in 1..Len(ins) : ins[i].key \notin CompNames

\* The grid when nothing raises.
build_node_grid ==
    PlaceIns(PlaceRight(PlaceLeft(PlaceConns(PlaceComps(EmptyGrid, 1), 1), 1),
                        1), 1)

\* ------------------------------------------------------------- _build_edges

Edge(start, end) == [start |-> start, end |-> end]

RECURSIVE ConnHEdges(_)
ConnHEdges(i) ==
    IF i > Len(connections) THEN <<>>
    ELSE <<Edge(<<connections[i].src>>,
                ConnName(connections[i].src, connections[i].target))>>
         \o ConnHEdges(i + 1)

RECURSIVE ConnVEdgesDirect(_)
ConnVEdgesDirect(i) ==
    IF i > Len(connections) THEN <<>>
    ELSE <<Edge(<<connections[i].src>>, <<connections[i].target>>)>>
         \o ConnVEdgesDirect(i + 1)

RECURSIVE ConnVEdges(_)
ConnVEdges(i) ==
    IF i > Len(connections) THEN <<>>
    ELSE <<Edge(ConnName(connections[i].src, connections[i].target),
                <<connections[i].target>>)>>
         \o ConnVEdges(i + 1)

RECURSIVE ItemEdges(_, _)
\* one edge comp_name -> node_name for every item of the dict d
ItemEdges(d, i) ==
    IF i > Len(d) THEN <<>>
    ELSE <<Edge(<<d[i].key>>, d[i].val.node_name)>> \o ItemEdges(d, i + 1)

h_edges == (ConnHEdges(1) \o ItemEdges(left_outs, 1)) \o ItemEdges(right_outs, 1)

v_edges == ConnVEdges(1) \o ItemEdges(ins, 1)

HorizontalMark == Edge(<<"% Horizontal edges">>, <<>>)

VerticalMark == Edge(<<"% Vertical edges">>, <<>>)

\* paths_str, line by line
build_edges == (<<HorizontalMark>> \o h_edges) \o (<<VerticalMark>> \o v_edges)

\* ------------------------------------------------------------- _build_process_chain

sys_names == {comps[i].node_name : i \in 1..Len(comps)}

ProcessChainRaises ==
    \E p \in 1..Len(processes) :
        \E i \in 1..Len(processes[p]) : processes[p][i] \notin sys_names

JoinOfDirected(arrow) == "ProcessHVA"

JoinOf(arrow) == IF arrow THEN "ProcessHVA" ELSE "ProcessHV"

\* the \chainin line of the i-th system of a process
ChainIn(proc, arrow, i) ==
    [sys |-> proc[i], join |-> IF i = 1 THEN "" ELSE JoinOf(arrow)]

ChainBlock(proc, arrow) == [i \in 1..Len(proc) |-> ChainIn(proc, arrow, i)]

\* chain_str, block by block, when nothing raises
build_process_chain ==
    [p \in 1..Len(processes) |-> ChainBlock(processes[p], process_arrows[p])]

\* ------------------------------------------------------------- write

\* What the three _build_ calls of write raise, in the order write makes them.
CompileRaises ==
    IF NodeGridRaises THEN "KeyError"
    ELSE IF ProcessChainRaises THEN "ValueError"
    ELSE "none"

\* file_name + '.tikz' with file_name None
WriteRaises(file_name) ==
    IF CompileRaises # "none" THEN CompileRaises
    ELSE IF file_name = None THEN "TypeError"
    ELSE "none"

File(file_name, ext) == <<file_name[1], ext>>

\* f.write(tikzpicture_str), and f.write(tex_str) if file_name
Written(file_name) ==
    {File(file_name, "tikz")}
        \cup (IF file_name # Some("") THEN {File(file_name, "tex")} ELSE {})

\* os.system('pdflatex ' + file_name + '.tex'): the renderer is absent or
\* fails and leaves nothing, or it runs and leaves the pdf, the aux and the log
RendererLeaves(file_name, ran) ==
    IF ran
    THEN {File(file_name, "pdf"), File(file_name, "aux"),
          File(file_name, "log")}
    ELSE {}

CleanupExts == {"aux", "fdb_latexmk", "fls", "log"}

Cleaned(file_name, fs) == fs \ {File(file_name, ext) : ext \in CleanupExts}

FilesAfter(file_name, build, cleanup, ran) ==
    IF ~build THEN files \cup Written(file_name)
    ELSE IF ~cleanup
    THEN (files \cup Written(file_name)) \cup RendererLeaves(file_name, ran)
    ELSE Cleaned(file_name, (files \cup Written(file_name))
                                \cup RendererLeaves(file_name, ran))

ShellAfter(file_name, build) ==
    IF build THEN shell \cup {<<"pdflatex", File(file_name, "tex")>>}
    ELSE shell

write(file_name, build, cleanup) ==
    /\ call' = Called("write",
                      [file_name |-> file_name, build |-> build,
                       cleanup |-> cleanup],
                      WriteRaises(file_name))
    /\ IF WriteRaises(file_name) # "none"
       THEN UNCHANGED io
       ELSE /\ \E ran \in BOOLEAN :
                   files' = FilesAfter(file_name, build, cleanup, ran)
            /\ shell' = ShellAfter(file_name, build)
    /\ UNCHANGED <<model, grouping>>

\* ------------------------------------------------------------- from_openmdao_group

\* The end of the slice seq[:n] of a list of length len: n counts from the
\* end of the list when it is negative.
SliceStop(len, n) ==
    IF n >= 0
    THEN (IF n < len THEN n ELSE len)
    ELSE (IF len + n > 0 THEN len + n ELSE 0)

\* vars[:vars_per_line]
Slice(seq, n) == SubSeq(seq, 1, SliceStop(Len(seq), n))

\* a del that empties the list
DelSliceAll(seq, n) == <<>>

\* del vars[:vars_per_line]
DelSlice(seq, n) == SubSeq(seq, SliceStop(Len(seq), n) + 1, Len(seq))

\* The two subsystems of the group, each added as an Analysis.
GroupComps ==
    <<[node_name |-> "A", style |-> Analysis, label |-> StrLabel("A"),
       stack |-> FALSE, faded |-> FALSE],
      [node_name |-> "B", style |-> Analysis, label |-> StrLabel("B"),
       stack |-> FALSE, faded |-> FALSE]>>

\* The three loops that group labels into lines.
Sites == {"connections", "outputs", "inputs"}

\* A list without a repeated label.
Distinct(seq) == \A i, j \in 1..Len(seq) : seq[i] = seq[j] => i = j

\* The labels a loop can start with: the labels of a connected pair are a
\* list that is not empty, those of a block come from a set that is not
\* empty, and output_whitelist can remove any of the outputs.
Collected(where, seq) ==
    /\ where = "connections" => seq # <<>>
    /\ where = "outputs" => Distinct(seq)
    /\ where = "inputs" => seq # <<>> /\ Distinct(seq)

\* The call with a group of the subsystems A and B of which A has the labels
\* seq at the loop where: as variables connected to B, as unconnected outputs
\* or as unconnected inputs. It resets all members, adds the subsystems and
\* reaches the loop.
from_openmdao_group(where, seq, n) ==
    /\ pc = "idle"
    /\ Collected(where, seq)
    /\ comps' = GroupComps
    /\ connections' = <<>>
    /\ left_outs' = <<>>
    /\ right_outs' = <<>>
    /\ ins' = <<>>
    /\ processes' = <<>>
    /\ process_arrows' = <<>>
    /\ call' = Called("from_openmdao_group",
                      [where |-> where, labels |-> seq, vars_per_line |-> n],
                      "none")
    /\ pc' = "loop"
    /\ site' = where
    /\ given' = seq
    /\ var_list' = seq
    /\ lines' = <<>>
    /\ vars_per_line' = n
    /\ UNCHANGED io

\* One pass of the body of while vars: a line is made of the first labels and
\* these are deleted. The model follows a loop for MaxLines lines.
GroupLine ==
    /\ pc = "loop"
    /\ var_list # <<>>
    /\ Len(lines) < MaxLines
    /\ lines' = Append(lines, Join(", ", Slice(var_list, vars_per_line)))
    /\ var_list' = DelSlice(var_list, vars_per_line)
    /\ UNCHANGED <<model, call, io, pc, site, given, vars_per_line>>

\* The loop ends at the empty list, and the lines are registered as one label:
\* self.connect(src_sys, tgt_sys, lines), self.add_output(block, lines,
\* side='right') or self.add_input(block, lines).
GroupDone ==
    /\ pc = "loop"
    /\ var_list = <<>>
    /\ connections' =
           IF site = "connections"
           THEN Append(connections,
                       [src |-> "A", target |-> "B", style |-> DataInter,
                        label |-> ListLabel(lines), stack |-> FALSE,
                        faded |-> FALSE])
           ELSE connections
    /\ right_outs' =
           IF site = "outputs"
           THEN RightOutsAfter("A", ListLabel(lines), DataIO, FALSE, "right")
           ELSE right_outs
    /\ ins' =
           IF site = "inputs"
           THEN InsAfter("A", ListLabel(lines), DataIO, FALSE)
           ELSE ins
    /\ pc' = "idle"
    /\ UNCHANGED <<comps, left_outs, processes, process_arrows, call, io,
                   site, given, var_list, lines, vars_per_line>>

\* ------------------------------------------------------------- specifications

\* The arguments the calls are made with.
Sides == {"left", "right"}

Labels == {StrLabel("x"), StrLabel("y")}

\* the sequences over Ids of length at most MaxProcLen
Systems == UNION {[1..n -> Ids] : n \in 0..MaxProcLen}

FileNames == {None, Some(""), Some("f")}

\* components registered in the order A, B, A, ...
NextId == IF Len(comps) % 2 = 0 THEN "A" ELSE "B"

\* the labels of the group's variables
LabelNames == {"x", "y", "z"}

\* the lists of at most MaxLabels labels
LabelLists == UNION {[1..n -> LabelNames] : n \in 0..MaxLabels}

\* the values of vars_per_line
PerLine == (-1)..MaxPerLine

\* from_openmdao_group from its call to its return.
NextGroup ==
    \/ \E where \in Sites, seq \in LabelLists, n \in PerLine :
           from_openmdao_group(where, seq, n)
    \/ GroupLine
    \/ GroupDone

\* A call that reached a statement of the loop executes it.
GroupFairness == WF_vars(GroupLine) /\ WF_vars(GroupDone)

SpecGroup == Init /\ [][NextGroup]_vars

FairSpecGroup == SpecGroup /\ GroupFairness

\* Every call the object takes while from_openmdao_group is not running.
Calls ==
    \/ \E n \in Ids, stack \in BOOLEAN, faded \in BOOLEAN :
           add_system(n, Analysis, StrLabel(n), stack, faded)
    \/ \E n \in Ids, label \in Labels, stack \in BOOLEAN :
           add_input(n, label, DataIO, stack)
    \/ \E n \in Ids, label \in Labels, stack \in BOOLEAN,
          side \in Sides \cup {"top"} :
           add_output(n, label, DataIO, stack, side)
    \/ \E s \in Ids, t \in Ids, label \in Labels \cup {ListLabel(<<"x", "y">>)},
          stack \in BOOLEAN, faded \in BOOLEAN :
           connect(s, t, label, DataInter, stack, faded)
    \/ \E systems \in Systems, arrow \in BOOLEAN : add_process(systems, arrow)
    \/ \E file_name \in FileNames, build \in BOOLEAN, cleanup \in BOOLEAN :
           write(file_name, build, cleanup)

Next == (pc = "idle" /\ Calls) \/ NextGroup

Spec == Init /\ [][Next]_vars

\* The specifications below make the same calls with fewer arguments, each
\* keeping the variety one group of properties is about.

\* add_input with every label and flag, beside add_system and add_output.
NextInput ==
    \/ \E n \in Ids, label \in Labels, stack \in BOOLEAN :
           add_input(n, label, DataIO, stack)
    \/ \E n \in Ids : add_system(n, Analysis, StrLabel(n), FALSE, FALSE)
    \/ \E n \in Ids, side \in Sides :
           add_output(n, StrLabel("y"), DataIO, FALSE, side)

SpecInput == Init /\ [][NextInput]_vars

\* add_output with every label, flag and side, beside add_input.
NextOutput ==
    \/ \E n \in Ids, label \in Labels, stack \in BOOLEAN,
          side \in Sides \cup {"top"} :
           add_output(n, label, DataIO, stack, side)
    \/ \E n \in Ids : add_input(n, StrLabel("z"), DataIO, FALSE)

SpecOutput == Init /\ [][NextOutput]_vars

\* connect with every pair, label and flag, beside add_system and add_input.
NextConnect ==
    \/ \E s \in Ids, t \in Ids, label \in Labels, stack \in BOOLEAN,
          faded \in BOOLEAN :
           connect(s, t, label, DataInter, stack, faded)
    \/ add_system("A", Analysis, StrLabel("A"), FALSE, FALSE)
    \/ add_input("A", StrLabel("z"), DataIO, FALSE)

SpecConnect == Init /\ [][NextConnect]_vars

\* The layout: one label and one style per kind of element, no flags.
NextGrid ==
    \/ \E n \in Ids : add_system(n, Analysis, StrLabel(n), FALSE, FALSE)
    \/ \E n \in Ids : add_input(n, StrLabel("z"), DataIO, FALSE)
    \/ \E n \in Ids, side \in Sides :
           add_output(n, StrLabel("y"), DataIO, FALSE, side)
    \/ \E s \in Ids, t \in Ids :
           connect(s, t, StrLabel("x"), DataInter, FALSE, FALSE)
    \/ write(Some("f"), FALSE, TRUE)

SpecGrid == Init /\ [][NextGrid]_vars

\* The process chains: every process over Ids, directed or not.
NextProc ==
    \/ add_system(NextId, Analysis, StrLabel(NextId), FALSE, FALSE)
    \/ \E systems \in Systems, arrow \in BOOLEAN : add_process(systems, arrow)
    \/ write(Some("f"), FALSE, TRUE)

SpecProc == Init /\ [][NextProc]_vars

\* write with and without a file name, building and cleaning up or not, on
\* components, connections and processes registered in any order.
NextWrite ==
    \/ \E n \in Ids : add_system(n, Analysis, StrLabel(n), FALSE, FALSE)
    \/ \E s \in Ids, t \in Ids :
           connect(s, t, StrLabel("x"), DataInter, FALSE, FALSE)
    \/ \E n \in Ids : add_process(<<n>>, TRUE)
    \/ \E file_name \in {None, Some("f")}, build \in BOOLEAN,
          cleanup \in BOOLEAN :
           write(file_name, build, cleanup)

SpecWrite == Init /\ [][NextWrite]_vars

\* The styles: every element with every combination of its flags.
NextStyle ==
    \/ \E stack \in BOOLEAN, faded \in BOOLEAN :
           add_system(NextId, Analysis, StrLabel(NextId), stack, faded)
    \/ \E stack \in BOOLEAN, faded \in BOOLEAN :
           connect("A", "B", ListLabel(<<"x", "y">>), DataInter, stack, faded)
    \/ \E stack \in BOOLEAN : add_input("A", StrLabel("z"), DataIO, stack)
    \/ \E stack \in BOOLEAN, side \in Sides :
           add_output("A", StrLabel("y"), DataIO, stack, side)
    \/ write(Some("f"), FALSE, TRUE)

SpecStyle == Init /\ [][NextStyle]_vars

\* ------------------------------------------------------------- registration calls

\* the texts of the label an entry holds
LabelList(entry) == entry.label.lines

OutsOf(side, l, r) == IF side = "left" THEN l ELSE r

C3_Connect ==
    [][/\ call'.op = "connect" =>
              LET a == call'.args
              IN IF a.src = a.target
                 THEN call'.raised = "ValueError" /\ UNCHANGED model
                 ELSE /\ call'.raised = "none"
                      /\ connections'
                             = connections
                               \o <<[src |-> a.src, target |-> a.target,
                                     style |-> a.style, label |-> a.label,
                                     stack |-> a.stack, faded |-> a.faded]>>
                      /\ UNCHANGED <<comps, left_outs, right_outs, ins,
                                     processes, process_arrows>>
       /\ \A i \in 1..Len(connections') :
              connections'[i].src # connections'[i].target]_vars

\* connect('A', 'A', ...) has just raised on an object that holds a
\* component, an input and the connection B -> A, B being unregistered
C3_Witness ==
    /\ call.op = "connect"
    /\ call.args.src = "A" /\ call.args.target = "A"
    /\ call.raised = "ValueError"
    /\ Len(connections) = 1
    /\ connections[1].src = "B" /\ connections[1].target = "A"
    /\ Len(comps) = 1
    /\ Len(ins) = 1

\* ------------------------------------------------------------- the compiled diagram

\* write has just run _build_node_grid to its end on the current fields
Built == call.op = "write" /\ call.raised # "KeyError"

\* the cells of grid g that hold a node of that name
CellsNamed(g, node_name) == {loc \in DOMAIN g : g[loc].node_name = node_name}

\* the cells of grid g that hold the node of a component named n
CompCells(g, n) == CellsNamed(g, <<n>>)

Occupied(g) == {loc \in DOMAIN g : g[loc] # EmptyCell}

I == IF Len(ins) > 0 THEN 1 ELSE 0

L == IF Len(left_outs) > 0 THEN 1 ELSE 0

R == IF Len(right_outs) > 0 THEN 1 ELSE 0

CompIds == [i \in 1..Len(comps) |-> comps[i].node_name]

ConnPairs == [i \in 1..Len(connections) |->
                 <<connections[i].src, connections[i].target>>]

DistinctIds ==
    \A i \in 1..Len(comps), j \in 1..Len(comps) :
        i # j => CompIds[i] # CompIds[j]

\* C4: in the compiled grid the node of every connection (source, target) is
\* in the row of the source component and the column of the target component,
\* whatever inputs and outputs are present, and it is not in the row of the
\* target and the column of the source; components A, B and connect(A, B, 'x')
\* alone give a 2x2 grid with A at (0,0), B at (1,1) and A-B at (0,1).
C4_ConnectionCell ==
    Built =>
        LET g == build_node_grid
        IN /\ \A i \in 1..Len(connections) :
                  LET src == connections[i].src
                      target == connections[i].target
                      at == CellsNamed(g, <<src, "-", target>>)
                  IN /\ \E s \in CompCells(g, src), t \in CompCells(g, target) :
                            at = {<<s[1], t[2]>>}
                     /\ \A s \in CompCells(g, src), t \in CompCells(g, target) :
                            <<t[1], s[2]>> \notin at
           /\ (/\ CompIds = <<"A", "B">>
               /\ ConnPairs = <<<<"A", "B">>>>
               /\ I + L + R = 0)
              => /\ DOMAIN g = (0..1) \X (0..1)
                 /\ g[<<0, 0>>].node_name = <<"A">>
                 /\ g[<<1, 1>>].node_name = <<"B">>
                 /\ g[<<0, 1>>].node_name = <<"A", "-", "B">>
                 /\ g[<<1, 0>>] = EmptyCell

\* a compiled diagram with an input row and both output columns, where the
\* connection B -> A sits at (row(B), col(A)) = (2, 1)
C4_Witness ==
    /\ Built
    /\ CompIds = <<"A", "B">>
    /\ ConnPairs = <<<<"B", "A">>>>
    /\ I + L + R = 3
    /\ CellsNamed(build_node_grid, <<"B", "-", "A">>) = {<<2, 1>>}

\* C5: the grid is square of side n + I + L + R; the i-th component (from 0)
\* is at (i + I, i + L), so that registration order is kept on the diagonal;
\* the input of c is at (0, col(c)), its left output at (row(c), 0), its right
\* output at (row(c), side - 1); A with one input gives a 2x2 grid, input at
\* (0,0), A at (1,0); A with a left and a right output gives a 3x3 grid, A at
\* (0,1), the outputs at (0,0) and (0,2).
C5_FixedOffsets ==
    Built =>
        LET g == build_node_grid
            side == Len(comps) + I + L + R
        IN /\ DOMAIN g = (0..(side - 1)) \X (0..(side - 1))
           /\ \A i \in 1..Len(comps) :
                  g[<<(i - 1) + I, (i - 1) + L>>].node_name = <<CompIds[i]>>
           /\ DistinctIds =>
                  \A i \in 1..Len(comps), j \in 1..Len(comps) :
                      \A a \in CompCells(g, CompIds[i]),
                         b \in CompCells(g, CompIds[j]) :
                          a[2] - b[2] = i - j /\ a[1] - b[1] = i - j
           /\ \A k \in 1..Len(ins) :
                  \E c \in CompCells(g, ins[k].key) :
                      CellsNamed(g, <<"output_", ins[k].key>>) = {<<0, c[2]>>}
           /\ \A k \in 1..Len(left_outs) :
                  \E c \in CompCells(g, left_outs[k].key) :
                      CellsNamed(g, <<"left_output_", left_outs[k].key>>)
                          = {<<c[1], 0>>}
           /\ \A k \in 1..Len(right_outs) :
                  \E c \in CompCells(g, right_outs[k].key) :
                      CellsNamed(g, <<"right_output_", right_outs[k].key>>)
                          = {<<c[1], side - 1>>}
           /\ (/\ CompIds = <<"A">>
               /\ DictKeys(ins) = {"A"}
               /\ Len(connections) + L + R = 0)
              => /\ DOMAIN g = (0..1) \X (0..1)
                 /\ g[<<0, 0>>].node_name = <<"output_", "A">>
                 /\ g[<<1, 0>>].node_name = <<"A">>
           /\ (/\ CompIds = <<"A">>
               /\ DictKeys(left_outs) = {"A"}
               /\ DictKeys(right_outs) = {"A"}
               /\ Len(connections) + I = 0)
              => /\ DOMAIN g = (0..2) \X (0..2)
                 /\ g[<<0, 1>>].node_name = <<"A">>
                 /\ g[<<0, 0>>].node_name = <<"left_output_", "A">>
                 /\ g[<<0, 2>>].node_name = <<"right_output_", "A">>

\* a compiled diagram of two components where B has an input, a left and a
\* right output: B is at (2, 2) of a 5x5 grid
C5_Witness ==
    /\ Built
    /\ CompIds = <<"A", "B">>
    /\ DictKeys(ins) = {"B"}
    /\ DictKeys(left_outs) = {"B"}
    /\ DictKeys(right_outs) = {"B"}
    /\ CompCells(build_node_grid, "B") = {<<2, 2>>}
    /\ CellsNamed(build_node_grid, <<"right_output_", "B">>) = {<<2, 4>>}

\* the node names of the elements of the diagram
ElementNames ==
    (((({<<CompIds[i]>> : i \in 1..Len(comps)}
        \cup {<<ConnPairs[i][1], "-", ConnPairs[i][2]>> :
                  i \in 1..Len(connections)})
        \cup {<<"output_", k>> : k \in DictKeys(ins)})
        \cup {<<"left_output_", k>> : k \in DictKeys(left_outs)})
        \cup {<<"right_output_", k>> : k \in DictKeys(right_outs)})

\* C9: with pairwise distinct component ids, every component, every distinct
\* ordered connection pair, every input, left output and right output has a
\* cell of its own inside the grid: each element's node is in exactly one
\* cell, and the number of non-empty cells is #components + #distinct pairs
\* + #inputs + #left outputs + #right outputs.
C9_UniqueCells ==
    (Built /\ DistinctIds) =>
        LET g == build_node_grid
        IN /\ \A name \in ElementNames : Cardinality(CellsNamed(g, name)) = 1
           /\ \A loc \in Occupied(g) : g[loc].node_name \in ElementNames
           /\ Cardinality(Occupied(g))
                  = Len(comps)
                    + Cardinality({ConnPairs[i] : i \in 1..Len(connections)})
                    + Len(ins) + Len(left_outs) + Len(right_outs)

\* a compiled diagram holding every kind of element: two components, the
\* connections A -> B and B -> A, an input, a left and a right output
C9_Witness ==
    /\ Built
    /\ CompIds = <<"A", "B">>
    /\ {ConnPairs[i] : i \in 1..Len(connections)}
           = {<<"A", "B">>, <<"B", "A">>}
    /\ I + L + R = 3
    /\ Cardinality(Occupied(build_node_grid)) = 7

\* the number of places of the sequence es, from lo to hi, that hold e
Count(es, lo, hi, e) == Cardinality({k \in lo..hi : es[k] = e})

\* C6: in the emitted edges, every connection record (s, t) gives exactly one
\* horizontal edge s -> (s-t) and one vertical edge (s-t) -> t and no edge
\* s -> t; every input of c gives exactly one vertical edge c -> input node;
\* every left or right output of c gives exactly one horizontal edge
\* c -> output node; there is no other edge: the horizontal batch has
\* #connections + #left outputs + #right outputs edges, the vertical batch
\* #connections + #inputs, and the horizontal batch comes first.
C6_Edges ==
    Built =>
        LET es == build_edges
            v == CHOOSE k \in 1..Len(es) : es[k] = VerticalMark
            nh == Len(connections) + Len(left_outs) + Len(right_outs)
            nv == Len(connections) + Len(ins)
        IN /\ es[1] = HorizontalMark
           /\ v = nh + 2
           /\ Len(es) = v + nv
           /\ Count(es, 1, Len(es), HorizontalMark) = 1
           /\ Count(es, 1, Len(es), VerticalMark) = 1
           /\ \A p \in {ConnPairs[i] : i \in 1..Len(connections)} :
                  LET n == Cardinality({i \in 1..Len(connections) :
                                           ConnPairs[i] = p})
                      node == <<p[1], "-", p[2]>>
                  IN /\ Count(es, 2, v - 1, Edge(<<p[1]>>, node)) = n
                     /\ Count(es, v + 1, Len(es), Edge(node, <<p[2]>>)) = n
                     /\ Count(es, 1, v, Edge(node, <<p[2]>>)) = 0
                     /\ Count(es, v, Len(es), Edge(<<p[1]>>, node)) = 0
                     /\ Count(es, 1, Len(es), Edge(<<p[1]>>, <<p[2]>>)) = 0
           /\ \A c \in DictKeys(ins) :
                  /\ Count(es, v + 1, Len(es),
                           Edge(<<c>>, <<"output_", c>>)) = 1
                  /\ Count(es, 1, v, Edge(<<c>>, <<"output_", c>>)) = 0
           /\ \A c \in DictKeys(left_outs) :
                  /\ Count(es, 2, v - 1,
                           Edge(<<c>>, <<"left_output_", c>>)) = 1
                  /\ Count(es, v, Len(es),
                           Edge(<<c>>, <<"left_output_", c>>)) = 0
           /\ \A c \in DictKeys(right_outs) :
                  /\ Count(es, 2, v - 1,
                           Edge(<<c>>, <<"right_output_", c>>)) = 1
                  /\ Count(es, v, Len(es),
                           Edge(<<c>>, <<"right_output_", c>>)) = 0

\* a compiled diagram with two connection records of the same pair, an input,
\* a left and a right output: four horizontal and three vertical edges
C6_Witness ==
    /\ Built
    /\ ConnPairs = <<<<"A", "B">>, <<"A", "B">>>>
    /\ Len(ins) = 1 /\ Len(left_outs) = 1 /\ Len(right_outs) = 1
    /\ Len(build_edges) = 9

\* ------------------------------------------------------------- processes and errors

Registered == {CompIds[i] : i \in 1..Len(comps)}

\* some process lists an id that is no registered component
UnknownInProcess ==
    \E p \in 1..Len(processes) :
        \E i \in 1..Len(processes[p]) : processes[p][i] \notin Registered

\* some connection has a source or a target that is no registered component
DanglingConnection ==
    \E i \in 1..Len(connections) :
        ConnPairs[i][1] \notin Registered \/ ConnPairs[i][2] \notin Registered

\* every input and output is that of a registered component
IOResolved ==
    ((DictKeys(ins) \cup DictKeys(left_outs)) \cup DictKeys(right_outs))
        \subseteq Registered

\* C7: add_process raises nothing, whatever ids it lists, and appends the
\* process with its flag; a write that gets to the process chains raises the
\* ValueError if some process lists an unregistered id, and otherwise builds
\* one block per process, in registration order, with one entry per id of the
\* process, in its order, the first entry without a join and every later one
\* with the directed join (ProcessHVA) if the flag of the process is true and
\* the plain join (ProcessHV) if it is false.
C7_ProcessChain ==
    /\ call.op = "add_process" =>
           /\ call.raised = "none"
           /\ Len(processes) = Len(process_arrows)
           /\ processes[Len(processes)] = call.args.systems
           /\ process_arrows[Len(processes)] = call.args.arrow
    /\ Built =>
           IF UnknownInProcess
           THEN call.raised = "ValueError"
           ELSE /\ call.raised # "ValueError"
                /\ LET chain == build_process_chain
                   IN /\ Len(chain) = Len(processes)
                      /\ \A p \in 1..Len(processes) :
                             /\ Len(chain[p]) = Len(processes[p])
                             /\ \A i \in 1..Len(processes[p]) :
                                    /\ chain[p][i].sys = processes[p][i]
                                    /\ chain[p][i].join
                                           = (IF i = 1 THEN ""
                                              ELSE IF process_arrows[p]
                                              THEN "ProcessHVA"
                                              ELSE "ProcessHV")

\* a written diagram with a directed process A, B and a plain process B, A
C7_Witness ==
    /\ Built
    /\ call.raised = "none"
    /\ processes = << <<"A", "B">>, <<"B", "A">> >>
    /\ process_arrows = <<TRUE, FALSE>>
    /\ build_process_chain[2][2] = [sys |-> "A", join |-> "ProcessHV"]

ReferenceErrors == {"KeyError", "ValueError"}

\* C8: add_system, connect with src # target and add_process raise nothing,
\* whatever is registered when they are called; a write on an object whose
\* inputs and outputs are those of registered components raises a reference
\* error (KeyError from the node grid, ValueError from the process chains) if
\* and only if, when it is called, some connection has an unregistered source
\* or target or some process lists an unregistered id; and a write that
\* raises one has written no file and run no command.
C8_ReferenceErrors ==
    [][/\ call'.op \in {"add_system", "add_process"} => call'.raised = "none"
       /\ (call'.op = "connect" /\ call'.args.src # call'.args.target)
              => call'.raised = "none"
       /\ (call'.op = "write" /\ IOResolved) =>
              /\ call'.raised \in ReferenceErrors
                     <=> (DanglingConnection \/ UnknownInProcess)
              /\ call'.raised \in ReferenceErrors
                     => (files' = files /\ shell' = shell)]_vars

\* a write that was to build and render has just raised the KeyError of the
\* node grid on an object that holds the component A, the connection A -> B
\* and a process over A: no file is written and no command run
C8_Witness ==
    /\ call.op = "write"
    /\ call.raised = "KeyError"
    /\ call.args.file_name = Some("f")
    /\ call.args.build
    /\ CompIds = <<"A">>
    /\ ConnPairs = << <<"A", "B">> >>
    /\ processes = << <<"A">> >>
    /\ files = {}
    /\ shell = {}

\* ------------------------------------------------------------- styles

\* the style an element is to be rendered with
Rendered(style, stack, faded) ==
    (style \o (IF stack THEN <<"stack">> ELSE <<>>))
        \o (IF faded THEN <<"faded">> ELSE <<>>)

\* the node names and rendered styles of the registered elements
Expected ==
    (((({[node_name |-> <<comps[i].node_name>>,
          style |-> Rendered(comps[i].style, comps[i].stack,
                             comps[i].faded)] : i \in 1..Len(comps)}
        \cup {[node_name |-> <<connections[i].src, "-",
                               connections[i].target>>,
               style |-> Rendered(connections[i].style, connections[i].stack,
                                  connections[i].faded)] :
                  i \in 1..Len(connections)})
        \cup {[node_name |-> ins[i].val.node_name,
               style |-> Rendered(ins[i].val.style, ins[i].val.stack, FALSE)] :
                  i \in 1..Len(ins)})
        \cup {[node_name |-> left_outs[i].val.node_name,
               style |-> Rendered(left_outs[i].val.style,
                                  left_outs[i].val.stack, FALSE)] :
                  i \in 1..Len(left_outs)})
        \cup {[node_name |-> right_outs[i].val.node_name,
               style |-> Rendered(right_outs[i].val.style,
                                  right_outs[i].val.stack, FALSE)] :
                  i \in 1..Len(right_outs)})

\* C10: every node of the compiled grid has the style its element was
\* registered with, followed by 'stack' if the element is stacked and then by
\* 'faded' if it is faded: a stacked input of style S is rendered 'S,stack'.
C10_RenderedStyle ==
    Built =>
        LET g == build_node_grid
        IN \A loc \in Occupied(g) :
               [node_name |-> g[loc].node_name, style |-> g[loc].style]
                   \in Expected

\* ------------------------------------------------------------- label grouping

\* the labels of a line, which is their ', '.join
LabelsOf(line) == [i \in 1..((Len(line) + 1) \div 2) |-> line[2 * i - 1]]

RECURSIVE Flatten(_)
\* the labels of the lines, one line after the other
Flatten(ls) ==
    IF ls = <<>> THEN <<>> ELSE LabelsOf(Head(ls)) \o Flatten(Tail(ls))

\* ceil(k / n)
Ceil(k, n) == (k + n - 1) \div n

\* from_openmdao_group returned from a loop
Grouped == pc = "idle" /\ site # "none"

\* the label the loop registered
GroupedLabel ==
    IF site = "connections" THEN connections[Len(connections)].label
    ELSE IF site = "outputs" THEN DictGet(right_outs, "A").label
    ELSE DictGet(ins, "A").label

\* The loop of k labels with vars_per_line >= 1 made ceil(k / vars_per_line)
\* lines, each of 1 to vars_per_line labels, that hold the labels it was given
\* in their order, and registered these lines.
GroupedRight ==
    (Grouped /\ vars_per_line >= 1) =>
        /\ Len(lines) = Ceil(Len(given), vars_per_line)
        /\ \A i \in 1..Len(lines) :
               /\ Len(LabelsOf(lines[i])) >= 1
               /\ Len(LabelsOf(lines[i])) <= vars_per_line
               /\ lines[i] = Join(", ", LabelsOf(lines[i]))
        /\ Flatten(lines) = given
        /\ given = <<>> => lines = <<>>
        /\ GroupedLabel = ListLabel(lines)

\* C11: the label-grouping loop of from_openmdao_group (connections,
\* unconnected outputs, unconnected inputs) ends for every list of k labels
\* and every vars_per_line >= 1, with exactly ceil(k / vars_per_line) lines,
\* each of 1 to vars_per_line labels, whose concatenation is the list it
\* started with; for k = 0 it makes no line.
C11_Grouping ==
    /\ (pc = "loop" /\ vars_per_line >= 1) ~> (pc = "idle")
    /\ []GroupedRight

\* Three labels at two a line were grouped into a line of two and a line of
\* one, at the loop of the connections.
C11_Witness ==
    /\ Grouped
    /\ site = "connections"
    /\ vars_per_line = 2
    /\ given = <<"x", "y", "z">>
    /\ lines = << <<"x", ", ", "y">>, <<"z">> >>
    /\ connections[1].label = ListLabel(lines)

====
